---- MODULE Spec2Model ----
(***************************************************************************)
(* Model of the database extension of mcp-gateway: the server lifecycle    *)
(* controller (MCPServerWithDB), its route registry on a gin router group, *)
(* the Snowflake connector and the schema-driven API generator.            *)
(*                                                                         *)
(* Texts are sequences of tokens (":" "{" "}" are tokens of their own), a  *)
(* path is the sequence of its "/"-separated segments, and a query         *)
(* template is a sequence of tagged tokens: keyword, quoted identifier or  *)
(* named parameter.                                                        *)
(***************************************************************************)
EXTENDS Naturals, Sequences, FiniteSets, TLC

(* ------------------------------ bounds -------------------------------- *)

\* independent callers of Start()/Stop()
NumCallers == 2
\* requests the serving task handles at the same time
MaxReq == 2
\* POST /generate-api calls decoded in one run
MaxGen == 2
\* route-serving goroutines spawned in one run
MaxTasks == 2

Callers == 1..NumCallers
Reqs == 1..MaxReq

(* ------------------------------- texts -------------------------------- *)

T(s) == <<s>>
Colon(x) == <<":">> \o x
Brace(x) == <<"{">> \o x \o <<"}">>

\* tokens of a query template
K(s) == <<"kw", <<s>>>>
Q(x) == <<"id", x>>
P(x) == <<"param", x>>
EmptyQuery == << >>

Range(f) == {f[i] : i \in DOMAIN f}

\* strings.Join(parts, ", ") over token sequences
RECURSIVE Join(_)
Join(parts) ==
  IF parts = << >> THEN << >>
  ELSE IF Len(parts) = 1 THEN parts[1]
  ELSE parts[1] \o <<K(", ")>> \o Join(Tail(parts))

\* a declared column type is a sequence of characters
ToLowerCh(c) ==
  CASE c = "A" -> "a" [] c = "B" -> "b" [] c = "C" -> "c" [] c = "D" -> "d"
    [] c = "E" -> "e" [] c = "F" -> "f" [] c = "G" -> "g" [] c = "H" -> "h"
    [] c = "I" -> "i" [] c = "J" -> "j" [] c = "K" -> "k" [] c = "L" -> "l"
    [] c = "M" -> "m" [] c = "N" -> "n" [] c = "O" -> "o" [] c = "P" -> "p"
    [] c = "Q" -> "q" [] c = "R" -> "r" [] c = "S" -> "s" [] c = "T" -> "t"
    [] c = "U" -> "u" [] c = "V" -> "v" [] c = "W" -> "w" [] c = "X" -> "x"
    [] c = "Y" -> "y" [] c = "Z" -> "z"
    [] OTHER -> c

ToLower(s) == [i \in DOMAIN s |-> ToLowerCh(s[i])]

Contains(s, sub) ==
  \E i \in 0..Len(s) :
    /\ i + Len(sub) <= Len(s)
    /\ \A j \in 1..Len(sub) : s[i + j] = sub[j]

(* ------------------------------- state -------------------------------- *)

VARIABLES
  cfg,        \* MCPServerConfig: database configured, EnableAPI, and which
              \* generator stands behind DBConn.GenerateAPIEndpoints
  isRunning,  \* MCPServerWithDB.isRunning
  ctxDone,    \* s.ctx has been cancelled
  mutex,      \* s.mutex: 0 when free, else the caller that holds it
  db,         \* SnowflakeConnector.db: "nil", "open" or "closed"
  tasks,      \* route-serving goroutines Start has spawned
  listening,  \* a serving goroutine has bound the port and dispatches requests
  call,       \* per caller: where it is in Start()/Stop()
  last,       \* the last return of Start()/Stop()
  routes,     \* the gin tree of the API group
  genCount,   \* POST /generate-api bodies decoded so far
  req,        \* per request slot: the request in flight
  conn,       \* a connector asked of NewDatabaseConnector and used on its own
  gen,        \* an APIGenerator over a connector, and its last generation
  info        \* the last map GetServerInfo returned, and who held s.mutex
              \* when it read the flag

vars == <<cfg, isRunning, ctxDone, mutex, db, tasks, listening, call, last,
          routes, genCount, req, conn, gen, info>>

(* ------------------------------ backend ------------------------------- *)

\* SnowflakeConfig.Database and .Schema
Database == T("DB")
Schema == T("PUBLIC")

users == T("users")
logs == T("logs")
tablesT == T("tables")
\* a table whose quoted name is ":limit"
colonT == Colon(T("limit"))
\* a table whose columns are those the generator under study is given
items == T("items")

Tables == {users, logs, tablesT, colonT, items}

Col(n, ty, pk) == [Name |-> n, Type |-> ty, PrimaryKey |-> pk]

\* the ordered columns getTableColumns returns for each table
Columns(t) ==
  CASE t = users -> << Col(T("id"), <<"S","E","R","I","A","L">>, TRUE),
                       Col(T("email"), <<"t","e","x","t">>, FALSE) >>
    [] t = logs -> << Col(T("msg"), <<"T","E","X","T">>, FALSE) >>
    [] t = tablesT -> << Col(T("id"), <<"I","N","T">>, TRUE),
                         Col(T("name"), <<"t","e","x","t">>, FALSE) >>
    [] t = colonT -> << Col(T("v"), <<"I","N","T">>, FALSE) >>
    [] t = items -> gen.cols
    [] OTHER -> << >>

Metadata(t) == [Name |-> t, Columns |-> Columns(t)]

(* --------------------------- descriptors ------------------------------ *)

\* connector.APIEndpoint (the Description text is left out; Parameters keeps
\* the documented names, not their descriptions)
Endpoint(m, p, q, ps) == [Method |-> m, Path |-> p, Query |-> q, Parameters |-> ps]

\* a primary key loop without the break: the last flagged column wins
LastPrimaryKey(cols) ==
  LET flagged == {i \in DOMAIN cols : cols[i].PrimaryKey}
  IN  IF flagged = {} THEN << >>
      ELSE cols[CHOOSE i \in flagged : \A j \in flagged : j <= i].Name

\* "for _, col := range Columns { if col.PrimaryKey { ...; break } }"
RECURSIVE FirstPrimaryKey(_)
FirstPrimaryKey(cols) ==
  IF cols = << >> THEN << >>
  ELSE IF Head(cols).PrimaryKey THEN Head(cols).Name
  ELSE FirstPrimaryKey(Tail(cols))

QualifiedName(t) == <<Q(Database), K("."), Q(Schema), K("."), Q(t)>>

\* the per-table body of SnowflakeConnector.GenerateAPIEndpoints
SnowflakeTableEndpoints(t) ==
  LET pk == FirstPrimaryKey(Metadata(t).Columns)
      list == Endpoint("GET", <<t>>,
                <<K("SELECT * FROM")>> \o QualifiedName(t)
                  \o <<K("LIMIT"), P(T("limit")), K("OFFSET"), P(T("offset"))>>,
                {T("limit"), T("offset")})
      byId == Endpoint("GET", <<t, Brace(pk)>>,
                <<K("SELECT * FROM")>> \o QualifiedName(t)
                  \o <<K("WHERE"), Q(pk), K("="), P(pk)>>,
                {pk})
  IN  IF pk # << >> THEN <<list, byId>> ELSE <<list>>

\* SnowflakeConnector.GenerateAPIEndpoints: the first table whose metadata
\* fetch fails (a table of bad) fails the whole call
RECURSIVE SnowflakeGenerateAPIEndpoints(_, _)
SnowflakeGenerateAPIEndpoints(tables, bad) ==
  IF tables = << >> THEN [err |-> FALSE, endpoints |-> << >>]
  ELSE IF Head(tables) \in bad THEN [err |-> TRUE, endpoints |-> << >>]
  ELSE LET rest == SnowflakeGenerateAPIEndpoints(Tail(tables), bad)
       IN  IF rest.err THEN rest
           ELSE [err |-> FALSE,
                 endpoints |-> SnowflakeTableEndpoints(Head(tables)) \o rest.endpoints]

quoteTableName(t) == Q(t)
quoteColumnName(c) == Q(c)

Identity == <<"i","d","e","n","t","i","t","y">>
Autoincrement == <<"a","u","t","o","i","n","c","r","e","m","e","n","t">>
Serial == <<"s","e","r","i","a","l">>

\* a type check that compares without lowering the case
isAutoIncrementTypeAsWritten(columnType) ==
  \/ Contains(columnType, Identity)
  \/ Contains(columnType, Autoincrement)
  \/ Contains(columnType, Serial)

isAutoIncrementType(columnType) ==
  LET lowerType == ToLower(columnType)
  IN  \/ Contains(lowerType, Identity)
      \/ Contains(lowerType, Autoincrement)
      \/ Contains(lowerType, Serial)

RECURSIVE InsertColumns(_)
InsertColumns(cols) ==
  IF cols = << >> THEN << >>
  ELSE IF Head(cols).PrimaryKey /\ isAutoIncrementType(Head(cols).Type)
       THEN InsertColumns(Tail(cols))
       ELSE <<Head(cols)>> \o InsertColumns(Tail(cols))

generateInsertQuery(t, cols) ==
  LET kept == InsertColumns(cols)
      columnNames == [i \in DOMAIN kept |-> <<quoteColumnName(kept[i].Name)>>]
      paramNames == [i \in DOMAIN kept |-> <<P(kept[i].Name)>>]
  IN  <<K("INSERT INTO"), quoteTableName(t), K("(")>> \o Join(columnNames)
        \o <<K(") VALUES (")>> \o Join(paramNames) \o <<K(")")>>

\* a SET clause built from every column
UpdateColumnsAll(cols, pk) == cols

RECURSIVE UpdateColumns(_, _)
UpdateColumns(cols, pk) ==
  IF cols = << >> THEN << >>
  ELSE IF Head(cols).Name = pk THEN UpdateColumns(Tail(cols), pk)
  ELSE <<Head(cols)>> \o UpdateColumns(Tail(cols), pk)

generateUpdateQuery(t, cols, pk) ==
  LET kept == UpdateColumns(cols, pk)
      setParts == [i \in DOMAIN kept |->
                     <<quoteColumnName(kept[i].Name), K("="), P(kept[i].Name)>>]
  IN  <<K("UPDATE"), quoteTableName(t), K("SET")>> \o Join(setParts)
        \o <<K("WHERE"), quoteColumnName(pk), K("="), P(pk)>>

generateColumnParameters(cols) == {cols[i].Name : i \in DOMAIN cols}

\* APIGenerator.generateEndpointsForTable, after a successful metadata fetch
generateEndpointsForTable(t) ==
  LET cols == Metadata(t).Columns
      pk == FirstPrimaryKey(cols)
      basePath == <<t>>
      list == Endpoint("GET", basePath,
                <<K("SELECT * FROM"), quoteTableName(t),
                  K("LIMIT"), P(T("limit")), K("OFFSET"), P(T("offset"))>>,
                {T("limit"), T("offset")})
      byId == Endpoint("GET", basePath \o <<Colon(pk)>>,
                <<K("SELECT * FROM"), quoteTableName(t),
                  K("WHERE"), quoteColumnName(pk), K("="), P(pk)>>,
                {pk})
      del == Endpoint("DELETE", basePath \o <<Colon(pk)>>,
                <<K("DELETE FROM"), quoteTableName(t),
                  K("WHERE"), quoteColumnName(pk), K("="), P(pk)>>,
                {pk})
      create == Endpoint("POST", basePath, generateInsertQuery(t, cols),
                  generateColumnParameters(cols))
      update == Endpoint("PUT", basePath \o <<Colon(pk)>>,
                  generateUpdateQuery(t, cols, pk), generateColumnParameters(cols))
  IN  IF pk # << >> THEN <<list, byId, del, create, update>>
      ELSE <<list, create>>

generateMetadataEndpoints ==
  << Endpoint("GET", <<T("tables")>>, EmptyQuery, {}),
     Endpoint("GET", <<T("tables"), Colon(T("tableName"))>>, EmptyQuery, {T("tableName")}),
     Endpoint("POST", <<T("query")>>, EmptyQuery, {T("query"), T("params")}) >>

\* the loop of APIGenerator.GenerateAPIFromTables: a table whose metadata
\* fetch fails (a table of bad) is logged and skipped
RECURSIVE TableLoop(_, _)
TableLoop(tables, bad) ==
  IF tables = << >> THEN << >>
  ELSE IF Head(tables) \in bad THEN TableLoop(Tail(tables), bad)
  ELSE generateEndpointsForTable(Head(tables)) \o TableLoop(Tail(tables), bad)

\* the base tables ListTables returns, ordered by name
ListedTables == <<colonT, items, logs, tablesT, users>>

\* a generation that appends the metadata descriptors only when no table
\* was skipped
GenerateAPIFromTablesCleanOnly(tables, bad, includeMetadata) ==
  LET all == IF Len(tables) = 0 THEN ListedTables ELSE tables
      allEndpoints == TableLoop(all, bad)
  IN  [err |-> FALSE,
       endpoints |-> IF includeMetadata /\ Range(all) \cap bad = {}
                       THEN allEndpoints \o generateMetadataEndpoints
                       ELSE allEndpoints]

GenerateAPIFromTables(tables, bad, includeMetadata) ==
  LET all == IF Len(tables) = 0 THEN ListedTables ELSE tables
      allEndpoints == TableLoop(all, bad)
  IN  [err |-> FALSE,
       endpoints |-> IF includeMetadata
                       THEN allEndpoints \o generateMetadataEndpoints
                       ELSE allEndpoints]

(* ------------------------------ registry ------------------------------ *)

\* maps (gin params, URL query, handler params) are sets of <<name, value>>
Keys(m) == {p[1] : p \in m}
\* "params[key] = value" for every pair of over, on top of base
MergeOver(base, over) == {p \in base : p[1] \notin Keys(over)} \cup over

\* a registered route: its handler is built in (kind names it) or the
\* closure registerGeneratedEndpoints makes around ep.  The router's table
\* is the sequence of its routes in the order they were registered.
Route(m, p, kind, ep) == [Method |-> m, Path |-> p, kind |-> kind, ep |-> ep]

NoEndpoint == Endpoint("", << >>, EmptyQuery, {})

BuiltIn(m, p, kind) == Route(m, p, kind, NoEndpoint)

\* the four routes setupAPIRoutes registers on the group
FixedRoutes ==
  << BuiltIn("GET", <<T("tables")>>, "tables"),
     BuiltIn("GET", <<T("tables"), Colon(T("tableName"))>>, "tableMeta"),
     BuiltIn("POST", <<T("query")>>, "query"),
     BuiltIn("POST", <<T("generate-api")>>, "generate") >>

\* gin: a path segment that starts with ":" is a named wildcard
IsWild(seg) == Len(seg) > 0 /\ seg[1] = ":"

Conflicts(rts, m, p) == \E i \in DOMAIN rts : rts[i].Method = m /\ rts[i].Path = p

\* a registration that never looks for an existing key
RouterAddUnguarded(rts, rt) == [panic |-> FALSE, routes |-> Append(rts, rt)]

\* router.GET/POST/PUT/DELETE: gin panics on a (method, path) that already
\* has handlers and leaves the tree as it was
RouterAdd(rts, rt) ==
  IF Conflicts(rts, rt.Method, rt.Path)
    THEN [panic |-> TRUE, routes |-> rts]
    ELSE [panic |-> FALSE, routes |-> Append(rts, rt)]

SupportedMethods == {"GET", "POST", "PUT", "DELETE"}

Matches(pattern, path) ==
  /\ Len(pattern) = Len(path)
  /\ \A i \in DOMAIN pattern : IsWild(pattern[i]) \/ pattern[i] = path[i]

\* gin tries the static child of a node before its wildcard child
MoreSpecific(a, b) ==
  \E i \in DOMAIN a :
    /\ \A j \in 1..(i - 1) : IsWild(a[j]) = IsWild(b[j])
    /\ ~IsWild(a[i]) /\ IsWild(b[i])

\* the routes a request for (m, path) can be handed to
Lookup(rts, m, path) ==
  LET ms == {x \in Range(rts) : x.Method = m /\ Matches(x.Path, path)}
  IN  {x \in ms : \A y \in ms : ~MoreSpecific(y.Path, x.Path)}

\* c.Params: the values gin bound to the wildcards of the matched pattern
GinParams(pattern, path) ==
  {<<Tail(pattern[i]), path[i]>> : i \in {j \in DOMAIN pattern : IsWild(pattern[j])}}

\* the closure's parameter extraction: path parameters, then query
\* parameters written over them
ExtractParams(ep, cParams, query) ==
  MergeOver({p \in cParams : p[1] \in ep.Parameters}, query)

\* the names sqlx.Named binds: ":" followed by name characters, wherever it
\* stands in the text (inside a quoted identifier too)
NamedParams(q) ==
  {q[i][2] : i \in {j \in DOMAIN q : q[j][1] = "param"}}
    \cup {Tail(q[i][2]) : i \in {j \in DOMAIN q : q[j][1] = "id" /\ IsWild(q[j][2])}}


(* ------------------------------ requests ------------------------------ *)

Body(ok, tables, q, params) ==
  [ok |-> ok, tables |-> tables, query |-> q, params |-> params]
NoBody == Body(TRUE, << >>, EmptyQuery, {})
BadBody == Body(FALSE, << >>, EmptyQuery, {})

In(m, p, query, body) == [Method |-> m, Path |-> p, Query |-> query, Body |-> body]

GenInputs == { <<users>>, <<logs, users>>, <<tablesT>>, <<colonT>> }

Paging == { <<T("limit"), T("10")>>, <<T("offset"), T("0")>> }

ReqInputs ==
  { In("GET", <<T("tables")>>, {}, NoBody),
    In("GET", <<T("tables"), users>>, {}, NoBody),
    In("POST", <<T("query")>>, {}, Body(TRUE, << >>, <<K("SELECT 1")>>, {})),
    In("POST", <<T("query")>>, {}, BadBody),
    In("POST", <<T("generate-api")>>, {}, BadBody),
    In("GET", <<users>>, Paging, NoBody),
    In("GET", <<users, T("5")>>, {}, NoBody),
    In("GET", <<users, Brace(T("id"))>>, {}, NoBody),
    In("GET", <<T("5")>>, Paging, NoBody) }
  \cup { In("POST", <<T("generate-api")>>, {}, Body(TRUE, ts, EmptyQuery, {})) :
           ts \in GenInputs }

NoInput == In("", << >>, {}, NoBody)

\* a request slot: the request, the kind and pattern of the route it was
\* handed to, the connector call made for it (operation, template, params,
\* context), the response (status, cause of the error, kind of body,
\* descriptors) and, while it registers, how many routes the tree held when
\* registerGeneratedEndpoints was entered
Idle ==
  [pc |-> "idle", in |-> NoInput, kind |-> "none", pattern |-> << >>,
   op |-> "none", query |-> EmptyQuery, args |-> {}, ctx |-> "none",
   status |-> 0, err |-> "none", body |-> "none", eps |-> << >>, saw |-> 0]

\* c.JSON(status, ...) and return: the descriptors are the body of a 200
\* answer of generate-api, any other answer carries the error alone
Respond(rq, status, err) ==
  [rq EXCEPT !.pc = "done", !.status = status, !.err = err,
             !.body = IF status = 200 THEN "data" ELSE "error",
             !.saw = 0,
             !.eps = IF status = 200 THEN rq.eps ELSE << >>]

\* gin answers a request no route matches: 404 with a plain text
NotFound(rq) == [Respond(rq, 404, "not_found") EXCEPT !.body = "text"]

\* the Recovery middleware of gin.Default() catches a panic of a handler
\* and aborts with the status alone: 500 and an empty body
Recovery(rq) == [Respond(rq, 500, "panic") EXCEPT !.body = "empty"]

(* ----------------------------- connector ------------------------------ *)

\* sqlx.ConnectContext(ctx, ...): a cancelled ctx fails the ping before any
\* network activity; otherwise the backend decides
ConnectResult(done, net) ==
  IF done THEN "cancelled" ELSE IF net = "up" THEN "ok" ELSE "error"

\* Disconnect: "if c.db != nil { return c.db.Close() }"
DisconnectDb(d) == IF d = "nil" THEN "nil" ELSE "closed"

\* a connector that sends the statement without binding its parameters
BeginCallUnbound(d, op, q, args) ==
  IF d = "nil" THEN "not_connected"
  ELSE IF d = "closed" THEN "closed"
  ELSE "sent"

\* a connector operation called with context ctx: what it answers before
\* anything is sent to the backend, or "sent"
BeginCall(d, op, q, args) ==
  IF d = "nil" THEN "not_connected"
  ELSE IF op = "ExecuteQuery" /\ ~(NamedParams(q) \subseteq Keys(args)) THEN "missing_param"
  ELSE IF d = "closed" THEN "closed"
  ELSE "sent"

\* is the context a call was given cancelled
Cancelled(ctx, done) == ctx = "lifecycle" /\ done

\* the context the handlers hand to the connector: c.Request.Context()
HandlerContext == "request"

(* ----------------------------- lifecycle ------------------------------ *)

\* a caller outside Start()/Stop()
Outside == [pc |-> "idle", env |-> "none"]

\* the last return of Start()/Stop(): the operation, what it returned,
\* whether it returned at the running-flag check, and what it logged
Returned(op, ret, noop, log) == [op |-> op, ret |-> ret, noop |-> noop, log |-> log]

\* a Start() that does not look at the flag
NeverRunning(running) == FALSE

\* Start: "if s.isRunning { return nil }"
AlreadyRunning(running) == running

\* Stop: "if !s.isRunning { return nil }"
AlreadyStopped(running) == ~running

\* a Start() that logs the Connect error and carries on
StartFinishFallsThrough(res, enableAPI) ==
  [ret |-> IF res = "ok" THEN "nil" ELSE "error", setRunning |-> TRUE,
   spawn |-> enableAPI, connected |-> res = "ok"]

\* Start after Connect returned res: the error return, or spawn the serving
\* goroutine (when the API is enabled) and set the flag
StartFinish(res, enableAPI) ==
  IF res # "ok"
    THEN [ret |-> "error", setRunning |-> FALSE, spawn |-> FALSE, connected |-> FALSE]
    ELSE [ret |-> "nil", setRunning |-> TRUE, spawn |-> enableAPI, connected |-> TRUE]

\* a Stop() that returns the Disconnect error
StopFinishPropagates(closeErr) ==
  IF closeErr
    THEN [ret |-> "error", cancel |-> FALSE, setStopped |-> FALSE, log |-> "none"]
    ELSE [ret |-> "nil", cancel |-> TRUE, setStopped |-> TRUE, log |-> "none"]

\* Stop after Disconnect returned: the error is logged, the context is
\* cancelled, the flag is cleared and nil is returned
StopFinish(closeErr) ==
  [ret |-> "nil", cancel |-> TRUE, setStopped |-> TRUE,
   log |-> IF closeErr THEN "disconnect_error" ELSE "none"]

\* Start() up to the call of Connect (the mutex is taken and, unless Connect
\* is called, released again)
StartEnter(c) ==
  /\ call[c].pc = "idle"
  /\ mutex = 0
  /\ tasks < MaxTasks
  /\ IF AlreadyRunning(isRunning)
       THEN /\ last' = Returned("Start", "nil", TRUE, "none")
            /\ UNCHANGED <<isRunning, mutex, call>>
       ELSE IF ~cfg.hasDB
         THEN /\ isRunning' = TRUE
              /\ last' = Returned("Start", "nil", FALSE, "none")
              /\ UNCHANGED <<mutex, call>>
         ELSE /\ \E net \in {"up", "down"} :
                   call' = [call EXCEPT ![c] = [pc |-> "connecting", env |-> net]]
              /\ mutex' = c
              /\ UNCHANGED <<isRunning, last>>
  /\ UNCHANGED <<info, conn, gen, cfg, ctxDone, db, tasks, listening, routes, genCount, req>>

\* Connect(s.ctx) returns and Start() runs to its end
ConnectReturn(c) ==
  /\ call[c].pc = "connecting"
  /\ LET fin == StartFinish(ConnectResult(ctxDone, call[c].env), cfg.enableAPI)
     IN  /\ db' = IF fin.connected THEN "open" ELSE db
         /\ tasks' = IF fin.spawn THEN tasks + 1 ELSE tasks
         /\ isRunning' = IF fin.setRunning THEN TRUE ELSE isRunning
         /\ last' = Returned("Start", fin.ret, FALSE, "none")
  /\ call' = [call EXCEPT ![c] = Outside]
  /\ mutex' = 0
  /\ UNCHANGED <<info, conn, gen, cfg, ctxDone, listening, routes, genCount, req>>

\* Stop() up to the call of Disconnect
StopEnter(c) ==
  /\ call[c].pc = "idle"
  /\ mutex = 0
  /\ IF AlreadyStopped(isRunning)
       THEN /\ last' = Returned("Stop", "nil", TRUE, "none")
            /\ UNCHANGED <<isRunning, ctxDone, mutex, call>>
       ELSE IF ~cfg.hasDB
         THEN /\ ctxDone' = TRUE
              /\ isRunning' = FALSE
              /\ last' = Returned("Stop", "nil", FALSE, "none")
              /\ UNCHANGED <<mutex, call>>
         ELSE /\ \E closeErr \in {"closeOk", "closeErr"} :
                   call' = [call EXCEPT ![c] = [pc |-> "disconnecting", env |-> closeErr]]
              /\ mutex' = c
              /\ UNCHANGED <<isRunning, ctxDone, last>>
  /\ UNCHANGED <<info, conn, gen, cfg, db, tasks, listening, routes, genCount, req>>

\* Disconnect(s.ctx) returns and Stop() runs to its end
DisconnectReturn(c) ==
  /\ call[c].pc = "disconnecting"
  /\ LET fin == StopFinish(call[c].env = "closeErr")
     IN  /\ db' = DisconnectDb(db)
         /\ ctxDone' = (ctxDone \/ fin.cancel)
         /\ isRunning' = IF fin.setStopped THEN FALSE ELSE isRunning
         /\ last' = Returned("Stop", fin.ret, FALSE, fin.log)
  /\ call' = [call EXCEPT ![c] = Outside]
  /\ mutex' = 0
  /\ UNCHANGED <<info, conn, gen, cfg, tasks, listening, routes, genCount, req>>

\* the goroutine of Start is scheduled: APIRouter.Run binds the port and
\* serves until the process ends (a later goroutine finds the port taken)
ServeBegin ==
  /\ tasks > 0
  /\ ~listening
  /\ listening' = TRUE
  /\ UNCHANGED <<info, conn, gen, cfg, isRunning, ctxDone, mutex, db, tasks, call, last, routes,
                 genCount, req>>

\* no GetServerInfo has returned yet
NoInfo == [called |-> FALSE, is_running |-> FALSE, database |-> FALSE, holder |-> 0]

\* the values Start() or Stop() of the callers inside their critical section
\* are going to store in the flag
PendingWrites ==
  {b \in BOOLEAN :
     \E c \in Callers :
       \/ /\ b
          /\ call[c].pc = "connecting"
          /\ StartFinish(ConnectResult(ctxDone, call[c].env), cfg.enableAPI).setRunning
       \/ /\ ~b
          /\ call[c].pc = "disconnecting"
          /\ StopFinish(call[c].env = "closeErr").setStopped}

\* GetServerInfo's read of s.isRunning, made without s.mutex: beside a
\* write of Start() or Stop() it yields the stored value or the one being
\* stored
FlagRead(running, pending) == {running} \cup pending

\* GetServerInfo(): name, type and the flag, and the database entry when a
\* database is configured; s.mutex is not touched
GetServerInfo ==
  /\ \E v \in FlagRead(isRunning, PendingWrites) :
       info' = [called |-> TRUE, is_running |-> v, database |-> cfg.hasDB,
                holder |-> mutex]
  /\ UNCHANGED <<conn, gen, cfg, isRunning, ctxDone, mutex, db, tasks, listening, call,
                 last, routes, genCount, req>>

(* ------------------------------ handlers ------------------------------ *)

\* a handler calls the connector: the call fails at once or is in flight
CallDb(rq, op, q, args) ==
  LET rec == [rq EXCEPT !.op = op, !.query = q, !.args = args, !.ctx = HandlerContext]
      b == BeginCall(db, op, q, args)
  IN  IF b = "sent" THEN [rec EXCEPT !.pc = "db"] ELSE Respond(rec, 500, b)

\* the handler of route rt, up to its connector call, for request in
Serve(in, rt) ==
  LET base == [Idle EXCEPT !.in = in, !.kind = rt.kind, !.pattern = rt.Path]
  IN  CASE rt.kind = "tables" -> CallDb(base, "ListTables", EmptyQuery, {})
        [] rt.kind = "tableMeta" ->
             CallDb(base, "GetTableMetadata", EmptyQuery,
                    {p \in GinParams(rt.Path, in.Path) : p[1] = T("tableName")})
        [] rt.kind = "query" ->
             IF ~in.Body.ok THEN Respond(base, 400, "bad_request")
             ELSE CallDb(base, "ExecuteQuery", in.Body.query, in.Body.params)
        [] rt.kind = "generate" ->
             IF ~in.Body.ok THEN Respond(base, 400, "bad_request")
             ELSE CallDb(base, "GenerateAPIEndpoints", EmptyQuery, {})
        [] OTHER ->
             CallDb(base, "ExecuteQuery", rt.ep.Query,
                    ExtractParams(rt.ep, GinParams(rt.Path, in.Path), in.Query))

\* DBConn.GenerateAPIEndpoints
Generate(tables, bad) ==
  IF cfg.generator = "snowflake"
    THEN SnowflakeGenerateAPIEndpoints(tables, bad)
    ELSE GenerateAPIFromTables(tables, bad, cfg.includeMetadata)

\* the serving task takes a request, finds its route and runs the handler up
\* to its connector call
Dispatch(r) ==
  /\ listening
  /\ req[r].pc = "idle"
  /\ \A q \in Reqs : q < r => req[q].pc # "idle"
  /\ \E in \in ReqInputs :
       LET ms == Lookup(routes, in.Method, in.Path)
       IN  IF ms = {}
             THEN /\ req' = [req EXCEPT ![r] = NotFound([Idle EXCEPT !.in = in])]
                  /\ UNCHANGED genCount
             ELSE \E rt \in ms :
                    LET decodes == rt.kind = "generate" /\ in.Body.ok
                    IN  /\ decodes => genCount < MaxGen
                        /\ req' = [req EXCEPT ![r] = Serve(in, rt)]
                        /\ genCount' = IF decodes THEN genCount + 1 ELSE genCount
  /\ UNCHANGED <<info, conn, gen, cfg, isRunning, ctxDone, mutex, db, tasks, listening, call, last,
                 routes>>

\* the connector call of request r returns and the handler answers; after a
\* successful GenerateAPIEndpoints the handler goes on to register
DbReturn(r) ==
  /\ req[r].pc = "db"
  /\ IF Cancelled(req[r].ctx, ctxDone)
       THEN req' = [req EXCEPT ![r] = Respond(@, 500, "cancelled")]
       ELSE IF req[r].op = "GenerateAPIEndpoints"
         THEN \E bad \in SUBSET Range(req[r].in.Body.tables) :
                LET res == Generate(req[r].in.Body.tables, bad)
                IN  req' = [req EXCEPT ![r] =
                      IF res.err THEN Respond(@, 500, "backend")
                      ELSE [@ EXCEPT !.pc = "register", !.eps = res.endpoints,
                                     !.saw = Len(routes)]]
         ELSE \E ok \in BOOLEAN :
                req' = [req EXCEPT ![r] =
                          IF ok THEN Respond(@, 200, "none")
                          ELSE Respond(@, 500, "backend")]
  /\ UNCHANGED <<info, conn, gen, cfg, isRunning, ctxDone, mutex, db, tasks, listening, call, last,
                 routes, genCount>>

\* registerGeneratedEndpoints, from descriptor i on: every descriptor with
\* a supported method is handed to the router with a closure around it; a
\* panic of the router ends the loop at the descriptor that caused it
RECURSIVE RegisterLoop(_, _, _)
RegisterLoop(rts, eps, i) ==
  IF i > Len(eps) THEN [routes |-> rts, panic |-> FALSE]
  ELSE LET e == eps[i]
       IN  IF e.Method \notin SupportedMethods
             THEN RegisterLoop(rts, eps, i + 1)
             ELSE LET res == RouterAdd(rts, Route(e.Method, e.Path, "generic", e))
                  IN  IF res.panic THEN [routes |-> rts, panic |-> TRUE]
                      ELSE RegisterLoop(res.routes, eps, i + 1)

registerGeneratedEndpoints(rts, eps) == RegisterLoop(rts, eps, 1)

\* what a registration entered when the tree held the first saw routes of
\* rts can leave behind. Nothing orders the writes of two handlers: when
\* another handler wrote in between (rts is longer than saw), the loop may
\* have run on the tree as it is now, or have made its duplicate checks on
\* the tree it entered with and written next to the other's routes, or
\* have had its own writes overwritten
RegisterOutcomes(rts, eps, saw) ==
  LET now == registerGeneratedEndpoints(rts, eps)
      stale == registerGeneratedEndpoints(SubSeq(rts, 1, saw), eps)
      written == SubSeq(stale.routes, saw + 1, Len(stale.routes))
  IN  IF Len(rts) = saw THEN {now}
      ELSE {now, [routes |-> rts \o written, panic |-> stale.panic],
                 [routes |-> rts, panic |-> stale.panic]}

\* the generate-api handler registers the descriptors and answers 200 with
\* them; a panic of the router is recovered by gin.Default()'s Recovery and
\* answered with 500
Register(r) ==
  /\ req[r].pc = "register"
  /\ LET rq == req[r]
     IN  \E res \in RegisterOutcomes(routes, rq.eps, rq.saw) :
           /\ routes' = res.routes
           /\ req' = [req EXCEPT ![r] =
                        IF res.panic THEN Recovery(rq)
                        ELSE Respond(rq, 200, "none")]
  /\ UNCHANGED <<info, conn, gen, cfg, isRunning, ctxDone, mutex, db, tasks, listening, call, last,
                 genCount>>

\* the response has been written: the slot is free for the next request
Reset(r) ==
  /\ req[r].pc = "done"
  /\ req' = [req EXCEPT ![r] = Idle]
  /\ UNCHANGED <<info, conn, gen, cfg, isRunning, ctxDone, mutex, db, tasks, listening, call, last,
                 routes, genCount>>

(* --------------------------- the connector ---------------------------- *)

\* operations made on one connector
MaxCalls == 3
\* rows a query matches
MaxRows == 2

\* a nil *SnowflakeConfig
NilSnowflake == [Nil |-> TRUE, AuthType |-> << >>, PrivateKey |-> "", PrivateKeyPath |-> ""]

\* a nil *DatabaseConfig
NilConfig == [Nil |-> TRUE, Type |-> "", Snowflake |-> NilSnowflake]

\* SnowflakeConfig.AuthType as written in a configuration
AuthTypes ==
  { <<"p","a","s","s","w","o","r","d">>, <<"P","A","S","S","W","O","R","D">>,
    <<"k","e","y","_","p","a","i","r">>, <<"K","e","y","_","P","a","i","r">>,
    <<"o","a","u","t","h">>, << >> }

\* SnowflakeConfig: the fields that decide how the DSN is made; a key is
\* "" (not given), "pem" (parses) or "junk" (does not parse), a key path is
\* "" (not given), "file" (a readable PEM key) or "missing" (no such file)
SnowflakeConfigs ==
  [Nil : {FALSE}, AuthType : AuthTypes, PrivateKey : {"", "pem", "junk"},
   PrivateKeyPath : {"", "file", "missing"}]

\* DatabaseConfig: the type discriminator and the nested settings
DatabaseConfigs ==
  {NilConfig}
    \cup [Nil : {FALSE}, Type : {"postgres", "Snowflake", ""},
          Snowflake : {NilSnowflake}]
    \cup [Nil : {FALSE}, Type : {"snowflake"},
          Snowflake : {NilSnowflake} \cup SnowflakeConfigs]

\* NewSnowflakeConnector: the error it returns, or "none"
NewSnowflakeConnector(config) ==
  IF config.Nil THEN "config_required" ELSE "none"

\* NewDatabaseConnector: the error it returns, or "none"
NewDatabaseConnector(config) ==
  IF config.Nil THEN "config_required"
  ELSE IF config.Type = "snowflake" THEN NewSnowflakeConnector(config.Snowflake)
  ELSE "unsupported_type"

\* a DSN builder that takes any other authentication type for a password
createSnowflakeDSNLenient(sf) ==
  IF ToLower(sf.AuthType) = <<"k","e","y","_","p","a","i","r">>
       /\ sf.PrivateKey = "" /\ sf.PrivateKeyPath = ""
    THEN "key_required"
    ELSE "none"

\* createSnowflakeDSN: the error it returns, or "none"
createSnowflakeDSN(sf) ==
  LET auth == ToLower(sf.AuthType)
  IN  IF auth = <<"p","a","s","s","w","o","r","d">> THEN "none"
      ELSE IF auth = <<"k","e","y","_","p","a","i","r">>
        THEN IF sf.PrivateKey # ""
               THEN IF sf.PrivateKey = "pem" THEN "none" ELSE "key_parse"
             ELSE IF sf.PrivateKeyPath # ""
               THEN IF sf.PrivateKeyPath = "file" THEN "none" ELSE "key_read"
             ELSE "key_required"
      ELSE "unsupported_auth"

\* what an operation on the connector returned: the error or "none", the
\* rows, whether a statement went to the backend and how many rows matched
Return(op, q, args, err, rows, sent, matched) ==
  [op |-> op, query |-> q, args |-> args, err |-> err, rows |-> rows,
   sent |-> sent, matched |-> matched]

NoReturn == Return("none", EmptyQuery, {}, "none", << >>, FALSE, 0)

\* no connector in use
NoConnector ==
  [pc |-> "none", config |-> NilConfig, db |-> "nil", attempts |-> 0,
   calls |-> 0, ret |-> NoReturn]

\* a client holds configuration config and is about to ask the factory
Asking(config) == [NoConnector EXCEPT !.pc = "asking", !.config = config]

\* NewDatabaseConnector(config) returns a connector or an error
Factory ==
  /\ conn.pc = "asking"
  /\ LET err == NewDatabaseConnector(conn.config)
     IN  conn' = [conn EXCEPT !.pc = IF err = "none" THEN "made" ELSE "refused",
                              !.ret = Return("NewDatabaseConnector", EmptyQuery, {},
                                             err, << >>, FALSE, 0)]
  /\ UNCHANGED <<info, gen, cfg, isRunning, ctxDone, mutex, db, tasks, listening,
                 call, last, routes, genCount, req>>

\* Connect(ctx): the DSN is made first; only then is a connection attempted
ConnectorConnect ==
  /\ conn.pc = "made"
  /\ conn.calls < MaxCalls
  /\ LET dsnErr == createSnowflakeDSN(conn.config.Snowflake)
     IN  IF dsnErr # "none"
           THEN conn' = [conn EXCEPT !.calls = @ + 1,
                                     !.ret = Return("Connect", EmptyQuery, {}, dsnErr,
                                                    << >>, FALSE, 0)]
           ELSE \E done \in BOOLEAN : \E net \in {"up", "down"} :
                  LET res == ConnectResult(done, net)
                  IN  conn' = [conn EXCEPT
                                 !.calls = @ + 1,
                                 !.attempts = @ + 1,
                                 !.db = IF res = "ok" THEN "open" ELSE @,
                                 !.ret = Return("Connect", EmptyQuery, {},
                                                IF res = "ok" THEN "none" ELSE res,
                                                << >>, FALSE, 0)]
  /\ UNCHANGED <<info, gen, cfg, isRunning, ctxDone, mutex, db, tasks, listening,
                 call, last, routes, genCount, req>>

\* Disconnect(ctx)
ConnectorDisconnect ==
  /\ conn.pc = "made"
  /\ conn.calls < MaxCalls
  /\ conn' = [conn EXCEPT !.calls = @ + 1, !.db = DisconnectDb(@),
                          !.ret = Return("Disconnect", EmptyQuery, {}, "none",
                                         << >>, FALSE, 0)]
  /\ UNCHANGED <<info, gen, cfg, isRunning, ctxDone, mutex, db, tasks, listening,
                 call, last, routes, genCount, req>>

\* the templates and parameter maps ExecuteQuery is called with
QueryInputs ==
  { <<K("SELECT 1")>>,
    <<K("SELECT * FROM"), Q(users), K("WHERE"), Q(T("id")), K("="), P(T("id"))>>,
    <<K("SELECT * FROM"), Q(users), K("LIMIT"), P(T("limit")),
      K("OFFSET"), P(T("offset"))>> }

ArgInputs ==
  { {}, {<<T("id"), T("5")>>}, {<<T("limit"), T("10")>>}, Paging }

\* ExecuteQuery(ctx, query, params): refused before the backend, or sent;
\* the rows are collected from a nil slice in the order the backend yields
\* them
ConnectorExecute ==
  /\ conn.pc = "made"
  /\ conn.calls < MaxCalls
  /\ \E q \in QueryInputs : \E args \in ArgInputs :
       LET b == BeginCall(conn.db, "ExecuteQuery", q, args)
       IN  IF b # "sent"
             THEN conn' = [conn EXCEPT !.calls = @ + 1,
                                       !.ret = Return("ExecuteQuery", q, args, b,
                                                      << >>, FALSE, 0)]
             ELSE \E ok \in BOOLEAN : \E n \in 0..MaxRows :
                    conn' = [conn EXCEPT
                               !.calls = @ + 1,
                               !.ret = IF ok
                                         THEN Return("ExecuteQuery", q, args, "none",
                                                     [i \in 1..n |-> i], TRUE, n)
                                         ELSE Return("ExecuteQuery", q, args, "backend",
                                                     << >>, TRUE, n)]
  /\ UNCHANGED <<info, gen, cfg, isRunning, ctxDone, mutex, db, tasks, listening,
                 call, last, routes, genCount, req>>

(* --------------------------- the generator ---------------------------- *)

\* columns a table under study may have
MaxCols == 3

\* the column names, by position
ColumnNames == <<T("id"), T("name"), T("ref"), T("note"), T("flag")>>

ColumnTypes ==
  { <<"I","N","T">>,
    <<"B","i","g","S","e","r","i","a","l">>,
    <<"N","U","M","B","E","R"," ","I","D","E","N","T","I","T","Y">>,
    <<"a","u","t","o","i","n","c","r","e","m","e","n","t">> }

\* the column sequences of at most MaxCols columns
ColumnSeqs ==
  UNION { { [i \in 1..n |-> Col(ColumnNames[i], f[i][1], f[i][2])] :
              f \in [1..n -> ColumnTypes \X BOOLEAN] } : n \in 0..MaxCols }

\* the table lists handed to GenerateAPIFromTables
GenRequests == { <<items>>, <<users, items>>, <<items, logs>>, << >> }

\* no generator in use
NoGeneration ==
  [pc |-> "none", tables |-> << >>, cols |-> << >>, includeMetadata |-> FALSE,
   failed |-> {}, err |-> FALSE, out |-> << >>]

\* NewAPIGenerator over a connected connector: the tables to ask for, the
\* columns the backend holds for items, and APIGeneratorConfig.IncludeMetadata
NewAPIGenerator(tables, cols, includeMetadata) ==
  [NoGeneration EXCEPT !.pc = "ready", !.tables = tables, !.cols = cols,
                       !.includeMetadata = includeMetadata]

\* the tables a call works on: those given, or those ListTables returns
Requested(tables) == IF Len(tables) = 0 THEN ListedTables ELSE tables

\* GenerateAPIFromTables is called: with no tables given a failing
\* ListTables fails the call; the metadata fetches of the tables of failed
\* fail
GenerateRun ==
  /\ gen.pc = "ready"
  /\ \E listOk \in BOOLEAN : \E bad \in SUBSET Range(Requested(gen.tables)) :
       IF Len(gen.tables) = 0 /\ ~listOk
         THEN gen' = [gen EXCEPT !.pc = "done", !.err = TRUE]
         ELSE LET res == GenerateAPIFromTables(gen.tables, bad, gen.includeMetadata)
              IN  gen' = [gen EXCEPT !.pc = "done", !.failed = bad,
                                     !.err = res.err, !.out = res.endpoints]
  /\ UNCHANGED <<info, conn, cfg, isRunning, ctxDone, mutex, db, tasks, listening,
                 call, last, routes, genCount, req>>

(* --------------------------- specifications --------------------------- *)

Config(hasDB, enableAPI, generator, includeMetadata) ==
  [hasDB |-> hasDB, enableAPI |-> enableAPI, generator |-> generator,
   includeMetadata |-> includeMetadata]

\* NewMCPServerWithDB: the router and its fixed routes exist when a database
\* is configured and the API is enabled
ServerInit(configs) ==
  /\ cfg \in configs
  /\ isRunning = FALSE
  /\ ctxDone = FALSE
  /\ mutex = 0
  /\ db = "nil"
  /\ tasks = 0
  /\ listening = FALSE
  /\ call = [c \in Callers |-> Outside]
  /\ last = Returned("none", "none", FALSE, "none")
  /\ routes = IF cfg.hasDB /\ cfg.enableAPI THEN FixedRoutes ELSE << >>
  /\ genCount = 0
  /\ req = [r \in Reqs |-> Idle]
  /\ info = NoInfo

\* the server alone: no connector and no generator are used beside it
InitWith(configs) ==
  /\ ServerInit(configs)
  /\ conn = NoConnector
  /\ gen = NoGeneration

\* the server as wired: DBConn is the Snowflake connector
Init ==
  InitWith({Config(h, a, "snowflake", FALSE) : h \in BOOLEAN, a \in BOOLEAN})

\* the data flow of the design: DBConn.GenerateAPIEndpoints is the API generator
InitAPIGen ==
  InitWith({Config(TRUE, TRUE, "apigen", m) : m \in BOOLEAN})

Next ==
  \/ \E c \in Callers : StartEnter(c)
  \/ \E c \in Callers : ConnectReturn(c)
  \/ \E c \in Callers : StopEnter(c)
  \/ \E c \in Callers : DisconnectReturn(c)
  \/ ServeBegin
  \/ \E r \in Reqs : Dispatch(r)
  \/ \E r \in Reqs : DbReturn(r)
  \/ \E r \in Reqs : Register(r)
  \/ \E r \in Reqs : Reset(r)

Spec == Init /\ [][Next]_vars

SpecAPIGen == InitAPIGen /\ [][Next]_vars

\* the lifecycle alone: Start(), Stop() and the serving goroutine, with
\* GetServerInfo called at any moment; no request is sent
NextLifecycle ==
  \/ \E c \in Callers : StartEnter(c)
  \/ \E c \in Callers : ConnectReturn(c)
  \/ \E c \in Callers : StopEnter(c)
  \/ \E c \in Callers : DisconnectReturn(c)
  \/ ServeBegin
  \/ GetServerInfo

SpecLifecycle == Init /\ [][NextLifecycle]_vars

\* the API generator alone, over every table list, column sequence and
\* metadata setting of the bounds; the server is constructed and left alone
InitGenerator ==
  /\ ServerInit({Config(TRUE, TRUE, "snowflake", FALSE)})
  /\ conn = NoConnector
  /\ gen \in {NewAPIGenerator(ts, cols, m) :
                ts \in GenRequests, cols \in ColumnSeqs, m \in BOOLEAN}

NextGenerator == GenerateRun

SpecGenerator == InitGenerator /\ [][NextGenerator]_vars

\* a connector alone, asked of the factory with every configuration of the
\* bounds and then used; the server is constructed and left alone
InitConnector ==
  /\ ServerInit({Config(TRUE, TRUE, "snowflake", FALSE)})
  /\ conn \in {Asking(c) : c \in DatabaseConfigs}
  /\ gen = NoGeneration

NextConnector ==
  \/ Factory
  \/ ConnectorConnect
  \/ ConnectorDisconnect
  \/ ConnectorExecute

SpecConnector == InitConnector /\ [][NextConnector]_vars

(* ------------------------------- claims ------------------------------- *)

Connecting(c) == call[c].pc = "connecting"
Disconnecting(c) == call[c].pc = "disconnecting"

\* this step is a return of Start() / of Stop()
StartReturns ==
  /\ last'.op = "Start"
  /\ \/ \E c \in Callers : Connecting(c) /\ call'[c].pc = "idle"
     \/ call' = call /\ last' # last
StopReturns ==
  /\ last'.op = "Stop"
  /\ \/ \E c \in Callers : Disconnecting(c) /\ call'[c].pc = "idle"
     \/ call' = call /\ last' # last

\* C1: Connect is invoked only while the state is Stopped and Disconnect
\* only while it is Running; a Start() while Running and a Stop() while
\* Stopped invoke neither, return nil and leave the state as it is
C1_GuardedTransitions ==
  [][ /\ \A c \in Callers :
           /\ (~Connecting(c) /\ call'[c].pc = "connecting") => ~isRunning
           /\ (~Disconnecting(c) /\ call'[c].pc = "disconnecting") => isRunning
      /\ ((StartReturns /\ isRunning) \/ (StopReturns /\ ~isRunning))
           => /\ last'.ret = "nil"
              /\ last'.noop
              /\ UNCHANGED <<isRunning, ctxDone, mutex, db, tasks, call>>
    ]_vars

\* a Start() has returned at the flag check while the server is Running and connected
C1_Witness ==
  isRunning /\ db = "open" /\ last = Returned("Start", "nil", TRUE, "none")

\* C2: when Connect fails during Start(), Start() returns the error, the
\* state stays Stopped and no serving task is started
C2_ConnectFailureAborts ==
  [][ \A c \in Callers :
        (Connecting(c) /\ call'[c].pc = "idle"
           /\ ConnectResult(ctxDone, call[c].env) # "ok")
          => /\ last' = Returned("Start", "error", FALSE, "none")
             /\ ~isRunning /\ ~isRunning'
             /\ tasks' = tasks
             /\ listening' = listening
    ]_vars

\* a Start() has returned an error before the server ever ran
C2_Witness ==
  /\ last = Returned("Start", "error", FALSE, "none")
  /\ ~isRunning /\ ~ctxDone /\ tasks = 0 /\ db = "nil"

\* C3: a Stop() called while Running returns nil whether or not Disconnect
\* fails, and leaves the state Stopped and the lifecycle context cancelled
C3_StopCompletes ==
  [][ (StopReturns /\ isRunning)
        => /\ last'.ret = "nil"
           /\ ~isRunning'
           /\ ctxDone'
    ]_vars

\* a Stop() whose Disconnect failed has returned
C3_Witness ==
  /\ last = Returned("Stop", "nil", FALSE, "disconnect_error")
  /\ ~isRunning /\ ctxDone

\* C4 (as claimed): from every Stopped state a Start() against a reachable
\* backend connects the connector and moves the server to Running
C4_StartFromStopped ==
  [][ \A c \in Callers :
        (Connecting(c) /\ call[c].env = "up" /\ call'[c].pc = "idle")
          => /\ isRunning'
             /\ db' = "open"
             /\ last'.ret = "nil"
    ]_vars

ConnectorOps == {"ExecuteQuery", "ListTables", "GetTableMetadata"}

\* a handler's connector call is in flight
InFlight(r) == req[r].pc = "db" /\ req[r].op \in ConnectorOps

\* C5 (as claimed): Connect and Disconnect never run at the same time as
\* each other nor as a handler's ExecuteQuery, ListTables or GetTableMetadata
C5_LifecycleExclusion ==
  /\ Cardinality({c \in Callers : Connecting(c) \/ Disconnecting(c)}) <= 1
  /\ (\E c \in Callers : Connecting(c) \/ Disconnecting(c))
       => \A r \in Reqs : ~InFlight(r)

\* C6 (as claimed): the lifecycle context governs every connector call of a
\* handler: a call that is in flight once Stop() has cancelled that context
\* ends with the cancellation error
C6_CancelledByLifecycle ==
  [][ \A r \in Reqs :
        (InFlight(r) /\ ctxDone /\ req'[r].pc # "db")
          => req'[r].err = "cancelled"
    ]_vars

SameKey(a, b) == a.Method = b.Method /\ a.Path = b.Path

OneHandlerPerKey(rts) ==
  \A i, j \in DOMAIN rts : SameKey(rts[i], rts[j]) => i = j

\* some descriptor of eps, taken in order, has the key of a route of rts or
\* of an earlier descriptor
MeetsExistingKey(rts, eps) ==
  \E i \in DOMAIN eps :
    \/ Conflicts(rts, eps[i].Method, eps[i].Path)
    \/ \E j \in 1..(i - 1) : SameKey(eps[j], eps[i])

\* this step is the registration of request r's descriptors
Registers(r) == req[r].pc = "register" /\ req'[r].pc = "done"

\* every descriptor of eps is the handler behind its key in rts
Installed(rts, eps) ==
  \A i \in DOMAIN eps :
    \E j \in DOMAIN rts :
      /\ rts[j].kind = "generic" /\ rts[j].ep = eps[i]
      /\ \A k \in DOMAIN rts : SameKey(rts[k], rts[j]) => k = j

\* C7 (as claimed): the registry never holds two handlers behind one
\* (method, path) key, and a registration that meets an existing key is
\* either rejected (answered 500, the handlers registered before staying as
\* they are) or replaces (answered 200, every descriptor being the one
\* handler behind its key); a registration that meets none installs every
\* descriptor and is answered 200
C7_OneHandlerPerKey ==
  /\ [] OneHandlerPerKey(routes)
  /\ [][ \A r \in Reqs :
           Registers(r) =>
             IF MeetsExistingKey(routes, req[r].eps)
               THEN \/ /\ req'[r].status = 500
                       /\ SubSeq(routes', 1, Len(routes)) = routes
                    \/ /\ req'[r].status = 200
                       /\ Installed(routes', req[r].eps)
               ELSE /\ req'[r].status = 200
                    /\ routes' = routes \o [i \in DOMAIN req[r].eps |->
                                   Route(req[r].eps[i].Method, req[r].eps[i].Path,
                                         "generic", req[r].eps[i])]
       ]_vars

GenerateRequest(ts) == In("POST", <<T("generate-api")>>, {}, Body(TRUE, ts, EmptyQuery, {}))

Registered(e) ==
  \E i \in DOMAIN routes : routes[i].kind = "generic" /\ routes[i].ep = e

\* the parameters of the descriptor behind a generated route with this pattern
DeclaredFor(pattern) ==
  UNION {routes[i].ep.Parameters :
           i \in {j \in DOMAIN routes :
                    routes[j].kind = "generic" /\ routes[j].Path = pattern}}

\* C8 (as claimed): when a path parameter and a query-string parameter of a
\* generated route carry the same name, ExecuteQuery is given the path value
C8_PathParameterWins ==
  \A r \in Reqs :
    (req[r].kind = "generic" /\ req[r].op = "ExecuteQuery")
      => \A p \in GinParams(req[r].pattern, req[r].in.Path) :
           (p[1] \in DeclaredFor(req[r].pattern) /\ p[1] \in Keys(req[r].in.Query))
             => p \in req[r].args

\* the requests that ask for the key of a fixed metadata descriptor
AsksSentinel(in) ==
  \E i \in DOMAIN generateMetadataEndpoints :
    LET e == generateMetadataEndpoints[i]
    IN  in.Method = e.Method /\ Matches(e.Path, in.Path)

PlainValues == {T("5")}

\* C10 (as claimed): once the get-by-id descriptor of a table with primary
\* key pk is registered, a request GET /{table}/v calls ExecuteQuery with
\* the descriptor's equality template and pk bound to v
C10_GetByIdServed ==
  [][ \A r \in Reqs : \A t \in Tables : \A v \in PlainValues :
        LET pk == FirstPrimaryKey(Metadata(t).Columns)
            eps == Generate(<<t>>, {}).endpoints
        IN  (/\ pk # << >>
             /\ Len(eps) >= 2 /\ Registered(eps[2])
             /\ req[r].pc = "idle" /\ req'[r].pc # "idle"
             /\ req'[r].in.Method = "GET" /\ req'[r].in.Path = <<t, v>>)
              => /\ req'[r].op = "ExecuteQuery"
                 /\ req'[r].query = eps[2].Query
                 /\ <<pk, v>> \in req'[r].args
    ]_vars

\* method, path and query template of each descriptor, in order
Shape(eps) == [i \in DOMAIN eps |-> <<eps[i].Method, eps[i].Path, eps[i].Query>>]

\* C11 (as claimed): the descriptors the generate-api handler is about to
\* register and return for a list of tables are, descriptor for descriptor
\* in method, path and query template, those the API generator produces for
\* the same tables and metadata
C11_ServingPathIsGenerator ==
  \A r \in Reqs :
    (req[r].kind = "generate" /\ req[r].pc = "register")
      => Shape(req[r].eps)
           = Shape(GenerateAPIFromTables(req[r].in.Body.tables, {},
                                         cfg.includeMetadata).endpoints)

\* the descriptors of the last generation that stand for table t
DescriptorsOf(t) ==
  LET Is(e) == e.Path[1] = t /\ e.Query # EmptyQuery
  IN  SelectSeq(gen.out, Is)

\* the last generation succeeded and the metadata of t was fetched for it
Generated(t) ==
  /\ gen.pc = "done" /\ ~gen.err
  /\ t \in Range(Requested(gen.tables)) /\ t \notin gen.failed

FlaggedAt(cols) == {i \in DOMAIN cols : cols[i].PrimaryKey}

FirstFlagged(cols) == CHOOSE i \in FlaggedAt(cols) : \A j \in FlaggedAt(cols) : i <= j

MethodAndPath(eps) == {<<eps[i].Method, eps[i].Path>> : i \in DOMAIN eps}

\* C12: for a table with a column flagged primary-key the generator emits
\* exactly list, get-by-id, delete, create and update, the last four keyed
\* on the first flagged column; for a table with none, exactly list and
\* create
C12_EndpointSet ==
  Generated(items) =>
    LET eps == DescriptorsOf(items)
    IN  IF FlaggedAt(gen.cols) # {}
          THEN LET byKey == <<items, Colon(gen.cols[FirstFlagged(gen.cols)].Name)>>
               IN  /\ Len(eps) = 5
                   /\ MethodAndPath(eps) =
                        { <<"GET", <<items>>>>, <<"GET", byKey>>, <<"DELETE", byKey>>,
                          <<"POST", <<items>>>>, <<"PUT", byKey>> }
          ELSE /\ Len(eps) = 2
               /\ MethodAndPath(eps) = { <<"GET", <<items>>>>, <<"POST", <<items>>>> }

\* generated for a table whose second and third columns are flagged, the
\* first is not
C12_Witness ==
  /\ Generated(items)
  /\ Len(gen.cols) = 3
  /\ FlaggedAt(gen.cols) = {2, 3}
  /\ <<"PUT", <<items, Colon(ColumnNames[2])>>>> \in MethodAndPath(gen.out)

\* the one descriptor of method m among those generated for table t
TheDescriptor(t, m) ==
  LET eps == DescriptorsOf(t)
  IN  eps[CHOOSE i \in DOMAIN eps : eps[i].Method = m]

\* the quoted identifiers of a template from token i on, in order
IdentifiersFrom(q, i) ==
  LET IsId(tok) == tok[1] = "id"
      ids == SelectSeq(SubSeq(q, i, Len(q)), IsId)
  IN  [k \in DOMAIN ids |-> ids[k][2]]

\* the declared types of the bounds that contain "identity", "autoincrement"
\* or "serial" in some mix of cases
AutoIncrementTypes ==
  { <<"B","i","g","S","e","r","i","a","l">>,
    <<"N","U","M","B","E","R"," ","I","D","E","N","T","I","T","Y">>,
    <<"a","u","t","o","i","n","c","r","e","m","e","n","t">> }

\* the names, in declaration order, of the columns that are not both flagged
\* primary-key and auto-increment-typed
InsertableNames(cols) ==
  LET Keep(c) == ~(c.PrimaryKey /\ c.Type \in AutoIncrementTypes)
      kept == SelectSeq(cols, Keep)
  IN  [k \in DOMAIN kept |-> kept[k].Name]

\* C13: the column list of the create template holds exactly the columns
\* that are not both flagged primary-key and auto-increment-typed, in
\* declaration order
C13_InsertColumns ==
  Generated(items) =>
    LET q == TheDescriptor(items, "POST").Query
    IN  /\ q[2] = <<"id", items>>
        /\ IdentifiersFrom(q, 3) = InsertableNames(gen.cols)

\* generated for three columns: a flagged BigSerial, an unflagged IDENTITY
\* and a flagged INT; the last two are the column list
C13_Witness ==
  /\ Generated(items)
  /\ Len(gen.cols) = 3
  /\ gen.cols[1].PrimaryKey /\ gen.cols[1].Type = <<"B","i","g","S","e","r","i","a","l">>
  /\ ~gen.cols[2].PrimaryKey /\ gen.cols[2].Type \in AutoIncrementTypes
  /\ gen.cols[3].PrimaryKey /\ gen.cols[3].Type = <<"I","N","T">>
  /\ IdentifiersFrom(TheDescriptor(items, "POST").Query, 3)
       = <<ColumnNames[2], ColumnNames[3]>>

\* where the WHERE keyword stands in a template
WhereAt(q) == CHOOSE i \in DOMAIN q : q[i] = K("WHERE")

\* the named parameters of a token sequence, in order
ParametersOf(q) ==
  LET IsParam(tok) == tok[1] = "param"
      ps == SelectSeq(q, IsParam)
  IN  [k \in DOMAIN ps |-> ps[k][2]]

\* the names of the columns other than pk, in declaration order
NamesWithout(cols, pk) ==
  LET Other(c) == c.Name # pk
      kept == SelectSeq(cols, Other)
  IN  [k \in DOMAIN kept |-> kept[k].Name]

\* C14: for a table with an inferred primary key, the SET clause of the
\* update template assigns every other column from the parameter of its
\* name and never names the primary-key column, and the WHERE clause
\* equates the primary-key column to the parameter of its name
C14_UpdateSetClause ==
  (Generated(items) /\ FlaggedAt(gen.cols) # {}) =>
    LET pk == gen.cols[FirstFlagged(gen.cols)].Name
        q == TheDescriptor(items, "PUT").Query
        set == SubSeq(q, 4, WhereAt(q) - 1)
    IN  /\ SubSeq(q, 1, 3) = <<K("UPDATE"), Q(items), K("SET")>>
        /\ IdentifiersFrom(set, 1) = NamesWithout(gen.cols, pk)
        /\ ParametersOf(set) = NamesWithout(gen.cols, pk)
        /\ \A i \in DOMAIN set : set[i] # Q(pk) /\ set[i] # P(pk)
        /\ SubSeq(q, WhereAt(q), Len(q)) = <<K("WHERE"), Q(pk), K("="), P(pk)>>

\* generated for three columns of which the second alone is flagged: the
\* SET clause assigns the first and the third
C14_Witness ==
  /\ Generated(items)
  /\ Len(gen.cols) = 3
  /\ FlaggedAt(gen.cols) = {2}
  /\ LET q == TheDescriptor(items, "PUT").Query
     IN  IdentifiersFrom(SubSeq(q, 4, WhereAt(q) - 1), 1)
           = <<ColumnNames[1], ColumnNames[3]>>

\* the descriptors of the tables of ts outside failed, each table's full
\* set, in the order of ts
RECURSIVE Contained(_, _)
Contained(ts, failed) ==
  IF ts = << >> THEN << >>
  ELSE (IF Head(ts) \in failed THEN << >> ELSE Generate(<<Head(ts)>>, {}).endpoints)
         \o Contained(Tail(ts), failed)

\* C15 (as claimed): a generation asked for several tables does not fail as
\* a whole when metadata fetches fail: the tables whose fetch failed
\* contribute nothing and every other table its full set, in request order
C15_FailureContained ==
  [][ \A r \in Reqs :
        (/\ req[r].pc = "db" /\ req[r].op = "GenerateAPIEndpoints"
         /\ Len(req[r].in.Body.tables) >= 2
         /\ req'[r].pc # "db")
          => /\ req'[r].pc = "register"
             /\ \E failed \in SUBSET Range(req[r].in.Body.tables) :
                  req'[r].eps = Contained(req[r].in.Body.tables, failed)
    ]_vars

\* the three fixed descriptors: method, path and (empty) query template
FixedDescriptors ==
  << <<"GET", <<T("tables")>>, EmptyQuery>>,
     <<"GET", <<T("tables"), <<":", "tableName">>>>, EmptyQuery>>,
     <<"POST", <<T("query")>>, EmptyQuery>> >>

\* C16: with metadata endpoints enabled a successful generation ends with
\* the three fixed descriptors, which are its only descriptors with an
\* empty query template, whatever was asked for and whatever failed; with
\* metadata endpoints disabled it holds no descriptor with an empty template
C16_MetadataDescriptors ==
  (gen.pc = "done" /\ ~gen.err) =>
    LET n == Len(gen.out)
        empties == {i \in DOMAIN gen.out : gen.out[i].Query = EmptyQuery}
    IN  IF gen.includeMetadata
          THEN /\ n >= 3
               /\ Shape(SubSeq(gen.out, n - 2, n)) = FixedDescriptors
               /\ empties = (n - 2)..n
          ELSE empties = {}

\* metadata endpoints enabled, two tables asked for and both failed: the
\* result is the three fixed descriptors
C16_Witness ==
  /\ gen.pc = "done" /\ ~gen.err /\ gen.includeMetadata
  /\ gen.tables = <<users, items>> /\ gen.failed = {users, items}
  /\ Shape(gen.out) = FixedDescriptors

\* the spellings of the two supported authentication types in the bounds
PasswordSpellings ==
  { <<"p","a","s","s","w","o","r","d">>, <<"P","A","S","S","W","O","R","D">> }
KeyPairSpellings ==
  { <<"k","e","y","_","p","a","i","r">>, <<"K","e","y","_","P","a","i","r">> }

\* a nil configuration or an unsupported type discriminator
FactoryMustRefuse(config) == config.Nil \/ config.Type # "snowflake"

\* key_pair authentication with neither key nor key path, or an
\* authentication type that is neither password nor key_pair
ConnectMustRefuse(sf) ==
  \/ sf.AuthType \in KeyPairSpellings /\ sf.PrivateKey = "" /\ sf.PrivateKeyPath = ""
  \/ sf.AuthType \notin PasswordSpellings \cup KeyPairSpellings

\* C17: with a nil configuration or an unsupported type the factory returns
\* an error and no connector; with key_pair authentication lacking both key
\* and key path, or with an unsupported authentication type, every Connect
\* returns that error; in each case no connection is attempted and the
\* connector is never connected
C17_ConfigurationErrors ==
  /\ (conn.pc # "none" /\ FactoryMustRefuse(conn.config))
       => /\ conn.pc \in {"asking", "refused"}
          /\ conn.pc = "refused" => conn.ret.err \in {"config_required", "unsupported_type"}
          /\ conn.attempts = 0 /\ conn.db = "nil"
  /\ (conn.pc = "made" /\ ConnectMustRefuse(conn.config.Snowflake))
       => /\ conn.ret.op = "Connect"
               => conn.ret.err \in {"key_required", "unsupported_auth"}
          /\ conn.attempts = 0 /\ conn.db = "nil"

\* Connect was called twice on a connector configured for Key_Pair with no
\* key and no key path, and refused
C17_Witness ==
  /\ conn.pc = "made"
  /\ conn.config.Snowflake.AuthType = <<"K","e","y","_","P","a","i","r">>
  /\ conn.config.Snowflake.PrivateKey = "" /\ conn.config.Snowflake.PrivateKeyPath = ""
  /\ conn.ret.op = "Connect" /\ conn.ret.err = "key_required"
  /\ conn.calls = 2 /\ conn.attempts = 0 /\ conn.db = "nil"

\* C18: ExecuteQuery with a template naming a parameter the map lacks
\* returns an error and no rows and sends nothing to the backend; a
\* statement the backend runs without error returns the rows it matched and
\* no error, an empty sequence when it matched none
C18_ExecuteQueryErrors ==
  conn.ret.op = "ExecuteQuery" =>
    /\ ~(Range(ParametersOf(conn.ret.query)) \subseteq Keys(conn.ret.args))
         => /\ conn.ret.err # "none"
            /\ conn.ret.rows = << >>
            /\ ~conn.ret.sent
    /\ (conn.ret.sent /\ conn.ret.err # "backend")
         => /\ conn.ret.err = "none"
            /\ Len(conn.ret.rows) = conn.ret.matched
            /\ conn.ret.matched = 0 => conn.ret.rows = << >>

\* on a connected connector the get-by-id template was executed with a map
\* that holds limit alone
C18_Witness ==
  /\ conn.db = "open"
  /\ conn.ret.op = "ExecuteQuery"
  /\ P(T("id")) \in Range(conn.ret.query)
  /\ conn.ret.args = {<<T("limit"), T("10")>>}
  /\ conn.ret.err = "missing_param" /\ ~conn.ret.sent /\ conn.ret.rows = << >>

\* request r ends in this step with an error raised by its handler, by the
\* connector or by the router
EndsInError(r) ==
  /\ req[r].pc # "done" /\ req'[r].pc = "done"
  /\ req'[r].err \notin {"none", "bad_request", "not_found"}

\* C19 (as claimed): a request that ends with an error of its query,
\* introspection, generation or registration is answered 500 with the
\* error object carrying a message, and the serving task goes on with every
\* route registered before still in place
C19_ErrorsBecome500 ==
  [][ \A r \in Reqs :
        EndsInError(r) =>
          /\ req'[r].status = 500
          /\ req'[r].body = "error"
          /\ listening' = listening
          /\ SubSeq(routes', 1, Len(routes)) = routes
    ]_vars

Registering(r) == req[r].pc = "register"

\* C20 (as claimed): registration is free of races: two generate-api
\* handlers are never inside registerGeneratedEndpoints at the same time,
\* and no request has its route looked up while a handler is inside it
C20_RegistrationRaceFree ==
  /\ [] (Cardinality({r \in Reqs : Registering(r)}) <= 1)
  /\ [][ \A r \in Reqs :
           (req[r].pc = "idle" /\ req'[r].pc # "idle")
             => \A w \in Reqs : ~Registering(w)
       ]_vars

(* ------------------------- the running flag --------------------------- *)

\* C21 (as claimed): every write of the running flag is made by a Start()
\* or Stop() that holds the lifecycle mutex, and GetServerInfo reads the flag
\* only when no Start() or Stop() is inside its critical section
C21_FlagUnderMutex ==
  /\ [][ isRunning' # isRunning =>
           \/ mutex # 0 /\ mutex' = 0
           \/ mutex = 0 /\ ~cfg.hasDB ]_vars
  /\ [][ info' # info => mutex = 0 ]_vars
  /\ [] (info.called => info.holder = 0)

(* ----------------------- serving after Stop() ------------------------- *)

\* a handler of request r calls ExecuteQuery, ListTables or GetTableMetadata
Invokes(r) == req[r].pc = "idle" /\ req'[r].op \in ConnectorOps

\* C22 (as claimed): once Stop() has returned and the server is stopped the
\* serving task serves no more, and no handler calls ExecuteQuery,
\* ListTables or GetTableMetadata while the server is stopped or on a
\* connector that has been disconnected
C22_NoCallsWhenStopped ==
  /\ [] ((~isRunning /\ ctxDone) => ~listening)
  /\ [][ \A r \in Reqs : Invokes(r) => (isRunning /\ db # "closed") ]_vars

====
